---- MODULE Spec2Model ----
(***************************************************************************)
(* Model of the mgmt configuration store (src/db.rs) and of the site       *)
(* initialisation workflow (src/bin/mgmt-site/main.rs).                    *)
(*                                                                         *)
(* The SQL statements of db.rs are modelled by what a MySQL server does    *)
(* with them: tables are sets of rows, AUTO_INCREMENT ids come from a      *)
(* counter per table, and the value a function returns is the              *)
(* last_insert_id field of the statement's OK packet.                      *)
(***************************************************************************)
EXTENDS Integers, Sequences, FiniteSets, TLC

VARIABLES
    environments,                \* rows {id, name, namespace}
    config_sections,             \* rows {id, name}
    config_defaults,             \* rows {id, section_id, cfg_key, cfg_value, value_type_id}
    config_values,               \* rows {id, section_id, cfg_key, cfg_value, value_type_id, default_id}
    environments_config_values,  \* rows {id, environment_id, config_value_id}
    auto_increment,              \* next AUTO_INCREMENT value of each table
    last,                        \* the most recent call of a db.rs function: its arguments and result
    cfg_log,                     \* history: the successful set_config_value calls, in call order
    pc,                          \* position of init() (or "lib" when db.rs is called directly)
    opts,                        \* InitOpts
    site_dir,                    \* the paths that exist under opts.dir
    db_proc,                     \* the dolt sql-server process started by init
    committed,                   \* the tables as committed in the store
    repos_left,                  \* repos still to clone in init's loop
    asked,                       \* number of statements ask_for_info has executed
    outcome                      \* how init returned, and from which step

tables == <<environments, config_sections, config_defaults, config_values,
            environments_config_values>>
dbvars == <<environments, config_sections, config_defaults, config_values,
            environments_config_values, auto_increment, last, cfg_log>>
wfvars == <<pc, opts, site_dir, db_proc, committed, repos_left, asked, outcome>>
vars == <<environments, config_sections, config_defaults, config_values,
          environments_config_values, auto_increment, last, cfg_log,
          pc, opts, site_dir, db_proc, committed, repos_left, asked, outcome>>

\* ---------------------------------------------------------------- bounds

\* Largest AUTO_INCREMENT id handed out in config_sections.
MaxSectionId == 3
\* Most rows held together by config_defaults, config_values and
\* environments_config_values.
MaxRows == 4
\* Most repos listed by get_repos.
MaxRepos == 1
\* Most statements one ask_for_info executes.
MaxAskOps == 2

\* ---------------------------------------------------------------- inputs

EnvNames == {"staging", "prod"}
Namespaces == {"ns1", "ns2"}
SectionNames == {"database", "auth"}
Keys == {"host", "port"}
DefaultValues == {"A"}
Values == {"B", "C"}
ValueTypeNames == {"string", "nosuchtype"}

\* ---------------------------------------------------------------- results

Ok(v) == [ok |-> TRUE, val |-> v, err |-> "none"]
Err(e) == [ok |-> FALSE, val |-> 0, err |-> e]

\* ---------------------------------------------------------------- SQL

\* A NULL id column.
NullId == 0

\* last_insert_id of an OK packet whose statement generated no AUTO_INCREMENT
\* value: a DELETE, or an INSERT ... ON DUPLICATE KEY UPDATE that found the row
\* and set it to its current values.
NoInsertId == 0

\* Nullable scalars of an SQL expression: <<>> is NULL, <<v>> is the value v.
SqlNull == <<>>
SqlVal(v) == <<v>>

\* a = b is true only when neither side is NULL.
SqlEqTrue(a, b) == a # SqlNull /\ b # SqlNull /\ a = b

\* VALUES(col) refers to the row being inserted only inside an ON DUPLICATE
\* KEY UPDATE clause; anywhere else it evaluates to NULL.
ValuesFn(row, col) == SqlNull

\* A scalar subquery: NULL when no row matches.
ScalarSubquery(ids) == IF ids = {} THEN NullId ELSE CHOOSE i \in ids : TRUE

\* config_value_types is reference data seeded with the database.
config_value_types == {[id |-> 1, name |-> "string"]}

\* UNIQUE KEY environments(name)
EnvDuplicateKey(name) == {r \in environments : r.name = name}
\* UNIQUE KEY config_sections(name)
SectionDuplicateKey(name) == {r \in config_sections : r.name = name}
\* config_values.section_id and config_values.value_type_id are NOT NULL
ConfigValuesNotNull(row) == row.section_id # NullId /\ row.value_type_id # NullId

Rows == Cardinality(config_defaults) + Cardinality(config_values)
            + Cardinality(environments_config_values)

Max(S) == CHOOSE x \in S : \A y \in S : y <= x

\* The OK packet of an executed statement.
OkPacket(rows, id) == [rows_affected |-> rows, last_insert_id |-> id]

\* INSERT ... ON DUPLICATE KEY UPDATE that hit an existing row: the row counts
\* as updated (2 rows affected, its id reported) only when a column changed.
OnDuplicatePacket(old, new) ==
    IF new = old THEN OkPacket(0, NoInsertId) ELSE OkPacket(2, new.id)

\* `.await?`: the statement failed in the connection or the server.
StorageFailure == Err("storage")

\* ---------------------------------------------------------------- db.rs

\* ON DUPLICATE KEY UPDATE name = VALUES(name)
EnvOnDuplicateKeyUpdate_mut(r, environment, namespace) ==
    [r EXCEPT !.name = environment, !.namespace = namespace]
EnvOnDuplicateKeyUpdate(r, environment, namespace) ==
    [r EXCEPT !.name = environment]

upsert_environment(environment, namespace) ==
    LET dup == EnvDuplicateKey(environment)
        id == auto_increment.environments
        call == [op |-> "upsert_environment", name |-> environment,
                 namespace |-> namespace]
    IN
    \/ /\ dup = {}
       /\ environments' = environments \cup
              {[id |-> id, name |-> environment, namespace |-> namespace]}
       /\ auto_increment' = [auto_increment EXCEPT !.environments = id + 1]
       /\ last' = [call |-> call, ret |-> Ok(OkPacket(1, id).last_insert_id)]
       /\ UNCHANGED <<config_sections, config_defaults, config_values,
                      environments_config_values, cfg_log>>
    \/ /\ dup # {}
       /\ LET old == CHOOSE r \in dup : TRUE
              new == EnvOnDuplicateKeyUpdate(old, environment, namespace)
          IN /\ environments' = (environments \ {old}) \cup {new}
             /\ last' = [call |-> call,
                         ret |-> Ok(OnDuplicatePacket(old, new).last_insert_id)]
       /\ UNCHANGED <<config_sections, config_defaults, config_values,
                      environments_config_values, auto_increment, cfg_log>>
    \/ /\ last' = [call |-> call, ret |-> StorageFailure]
       /\ UNCHANGED <<tables, auto_increment, cfg_log>>

\* fetch_one: exactly the first row, and Err(RowNotFound) when there is none.
\* Some(id) is <<id>>, None is <<>>.
fetch_one(rows) ==
    IF rows = {} THEN Err("RowNotFound")
    ELSE Ok(<<(CHOOSE r \in rows : TRUE).id>>)

get_env_id(environment) ==
    LET call == [op |-> "get_env_id", name |-> environment] IN
    /\ \/ last' = [call |-> call,
                   ret |-> fetch_one({r \in environments : r.name = environment})]
       \/ last' = [call |-> call, ret |-> StorageFailure]
    /\ UNCHANGED <<tables, auto_increment, cfg_log>>

\* ON DUPLICATE KEY UPDATE id = id
SectionOnDuplicateKeyUpdate(r, section) == [r EXCEPT !.id = r.id]

add_section(section) ==
    LET dup == SectionDuplicateKey(section)
        id == auto_increment.config_sections
        call == [op |-> "add_section", name |-> section]
    IN
    \/ /\ dup = {}
       /\ id <= MaxSectionId
       /\ config_sections' = config_sections \cup {[id |-> id, name |-> section]}
       /\ auto_increment' = [auto_increment EXCEPT !.config_sections = id + 1]
       /\ last' = [call |-> call, ret |-> Ok(OkPacket(1, id).last_insert_id)]
       /\ UNCHANGED <<environments, config_defaults, config_values,
                      environments_config_values, cfg_log>>
    \/ /\ dup # {}
       /\ LET old == CHOOSE r \in dup : TRUE
              new == SectionOnDuplicateKeyUpdate(old, section)
          IN /\ config_sections' = (config_sections \ {old}) \cup {new}
             /\ last' = [call |-> call,
                         ret |-> Ok(OnDuplicatePacket(old, new).last_insert_id)]
       /\ UNCHANGED <<environments, config_defaults, config_values,
                      environments_config_values, auto_increment, cfg_log>>
    \/ /\ last' = [call |-> call, ret |-> StorageFailure]
       /\ UNCHANGED <<tables, auto_increment, cfg_log>>

\* DELETE FROM config_sections WHERE name = ?; a DELETE generates no id.
delete_section(section) ==
    LET gone == {r \in config_sections : r.name = section}
        call == [op |-> "delete_section", name |-> section,
                 existed |-> gone # {}]
    IN
    \/ /\ config_sections' = config_sections \ gone
       /\ last' = [call |-> call,
                   ret |-> Ok(OkPacket(Cardinality(gone), NoInsertId).last_insert_id)]
       /\ UNCHANGED <<environments, config_defaults, config_values,
                      environments_config_values, auto_increment, cfg_log>>
    \/ /\ last' = [call |-> call, ret |-> StorageFailure]
       /\ UNCHANGED <<tables, auto_increment, cfg_log>>

\* (SELECT id FROM config_sections WHERE name = ?)
SectionIdSubquery_mut(section) ==
    ScalarSubquery({r.id : r \in config_sections})
SectionIdSubquery(section) ==
    ScalarSubquery({r.id : r \in {x \in config_sections : x.name = section}})

\* (SELECT id FROM config_value_types WHERE name = ?)
ValueTypeIdSubquery(value_type) ==
    ScalarSubquery({r.id : r \in {x \in config_value_types : x.name = value_type}})

\* (SELECT id FROM config_defaults WHERE cfg_key = VALUES(cfg_key)
\*                                  AND section_id = VALUES(section_id))
DefaultIdSubquery(row) ==
    ScalarSubquery({d.id : d \in {x \in config_defaults :
        /\ SqlEqTrue(SqlVal(x.cfg_key), ValuesFn(row, "cfg_key"))
        /\ SqlEqTrue(SqlVal(x.section_id), ValuesFn(row, "section_id"))}})

\* The row the INSERT of set_config_value builds from its four bound parameters.
ConfigValueRow_mut(id, section, key, value, value_type) ==
    LET cols == [section_id |-> SectionIdSubquery(section),
                 cfg_key |-> key,
                 cfg_value |-> key,
                 value_type_id |-> ValueTypeIdSubquery(value_type)]
    IN [id |-> id, section_id |-> cols.section_id, cfg_key |-> cols.cfg_key,
        cfg_value |-> cols.cfg_value, value_type_id |-> cols.value_type_id,
        default_id |-> DefaultIdSubquery(cols)]
ConfigValueRow(id, section, key, value, value_type) ==
    LET cols == [section_id |-> SectionIdSubquery(section),
                 cfg_key |-> key,
                 cfg_value |-> value,
                 value_type_id |-> ValueTypeIdSubquery(value_type)]
    IN [id |-> id, section_id |-> cols.section_id, cfg_key |-> cols.cfg_key,
        cfg_value |-> cols.cfg_value, value_type_id |-> cols.value_type_id,
        default_id |-> DefaultIdSubquery(cols)]

set_config_value(section, key, value, value_type) ==
    LET id == auto_increment.config_values
        row == ConfigValueRow(id, section, key, value, value_type)
        call == [op |-> "set_config_value", section |-> section,
                 value_type |-> value_type]
    IN
    \/ /\ ConfigValuesNotNull(row)
       /\ Rows < MaxRows
       /\ config_values' = config_values \cup {row}
       /\ auto_increment' = [auto_increment EXCEPT !.config_values = id + 1]
       /\ last' = [call |-> call, ret |-> Ok(OkPacket(1, id).last_insert_id)]
       /\ cfg_log' = Append(cfg_log, [id |-> id, key |-> key, value |-> value])
       /\ UNCHANGED <<environments, config_sections, config_defaults,
                      environments_config_values>>
    \/ /\ ~ConfigValuesNotNull(row)
       /\ last' = [call |-> call, ret |-> Err("column cannot be null")]
       /\ UNCHANGED <<tables, auto_increment, cfg_log>>
    \/ /\ last' = [call |-> call, ret |-> StorageFailure]
       /\ UNCHANGED <<tables, auto_increment, cfg_log>>

\* The row the INSERT of add_env_cfg_value builds from its two bound parameters.
EnvCfgValueRow_mut(id, env_id, cfg_id) ==
    [id |-> id, environment_id |-> cfg_id, config_value_id |-> env_id]
EnvCfgValueRow(id, env_id, cfg_id) ==
    [id |-> id, environment_id |-> env_id, config_value_id |-> cfg_id]

add_env_cfg_value(env_id, cfg_id) ==
    LET id == auto_increment.environments_config_values
        call == [op |-> "add_env_cfg_value", env_id |-> env_id, cfg_id |-> cfg_id]
    IN
    \/ /\ Rows < MaxRows
       /\ environments_config_values' =
              environments_config_values \cup {EnvCfgValueRow(id, env_id, cfg_id)}
       /\ auto_increment' =
              [auto_increment EXCEPT !.environments_config_values = id + 1]
       /\ last' = [call |-> call, ret |-> Ok(OkPacket(1, id).last_insert_id)]
       /\ UNCHANGED <<environments, config_sections, config_defaults,
                      config_values, cfg_log>>
    \/ /\ last' = [call |-> call, ret |-> StorageFailure]
       /\ UNCHANGED <<tables, auto_increment, cfg_log>>

\* ---------------------------------------------------------------- catalog

\* A Default is created for a (section, key) that has none:
\* (section_id, cfg_key) is unique in config_defaults.
add_default(section, key, value) ==
    LET id == auto_increment.config_defaults
        sid == SectionIdSubquery(section)
    IN
    /\ sid # NullId
    /\ Rows < MaxRows
    /\ ~\E d \in config_defaults : d.section_id = sid /\ d.cfg_key = key
    /\ config_defaults' = config_defaults \cup
           {[id |-> id, section_id |-> sid, cfg_key |-> key, cfg_value |-> value,
             value_type_id |-> ValueTypeIdSubquery("string")]}
    /\ auto_increment' = [auto_increment EXCEPT !.config_defaults = id + 1]
    /\ UNCHANGED <<environments, config_sections, config_values,
                   environments_config_values, last, cfg_log>>

\* The ConfigValues of (section_id, key) linked to an environment.
LinkedValues(env_id, section_id, key) ==
    {cv \in config_values :
        /\ cv.section_id = section_id
        /\ cv.cfg_key = key
        /\ \E l \in environments_config_values :
              l.environment_id = env_id /\ l.config_value_id = cv.id}

DefaultsOf(section_id, key) ==
    {d \in config_defaults : d.section_id = section_id /\ d.cfg_key = key}

\* Resolution of (environment, section, key): the latest linked ConfigValue,
\* else the Default, else missing.
Resolve(env_id, section_id, key) ==
    LET linked == LinkedValues(env_id, section_id, key)
        defaults == DefaultsOf(section_id, key)
    IN IF linked # {}
       THEN [from |-> "override",
             value |-> (CHOOSE cv \in linked :
                           cv.id = Max({x.id : x \in linked})).cfg_value]
       ELSE IF defaults # {}
       THEN [from |-> "default", value |-> (CHOOSE d \in defaults : TRUE).cfg_value]
       ELSE [from |-> "missing", value |-> "missing"]

\* ---------------------------------------------------------------- store

NoCall == [call |-> [op |-> "none"], ret |-> Ok(0)]

EmptyStore == [environments |-> {}, config_sections |-> {}, config_defaults |-> {},
               config_values |-> {}, environments_config_values |-> {}]

\* A store in which two environments and one section have been created.
SeededStore ==
    [environments |-> {[id |-> 1, name |-> "staging", namespace |-> "ns1"],
                       [id |-> 2, name |-> "prod", namespace |-> "ns2"]},
     config_sections |-> {[id |-> 1, name |-> "database"]},
     config_defaults |-> {},
     config_values |-> {},
     environments_config_values |-> {}]

TxView == [environments |-> environments, config_sections |-> config_sections,
           config_defaults |-> config_defaults, config_values |-> config_values,
           environments_config_values |-> environments_config_values]

\* The transaction opens on `store`; each AUTO_INCREMENT counter stands past
\* the ids in use.
DbInit(store) ==
    /\ environments = store.environments
    /\ config_sections = store.config_sections
    /\ config_defaults = store.config_defaults
    /\ config_values = store.config_values
    /\ environments_config_values = store.environments_config_values
    /\ auto_increment =
          [t \in DOMAIN store |-> Max({r.id : r \in store[t]} \cup {0}) + 1]
    /\ last = NoCall
    /\ cfg_log = <<>>

EnvIds == {r.id : r \in environments}
CfgIds == {r.id : r \in config_values}

DefaultOpts == [force |-> FALSE, no_db_clone |-> FALSE, no_repo_clone |-> FALSE,
                no_env |-> FALSE, no_defaults |-> FALSE, no_values |-> FALSE]

\* db.rs called directly inside one open transaction on `store`.
LibInit(store) ==
    /\ DbInit(store)
    /\ pc = "lib"
    /\ opts = DefaultOpts
    /\ site_dir = {}
    /\ db_proc = "none"
    /\ committed = store
    /\ repos_left = 0
    /\ asked = 0
    /\ outcome = [result |-> "running", step |-> "none"]

\* ------------------------------------------- environments and sections

UpsertEnvironment ==
    /\ pc = "lib"
    /\ \E n \in EnvNames, ns \in Namespaces : upsert_environment(n, ns)
    /\ UNCHANGED wfvars

GetEnvId ==
    /\ pc = "lib"
    /\ \E n \in EnvNames : get_env_id(n)
    /\ UNCHANGED wfvars

AddSection ==
    /\ pc = "lib"
    /\ \E s \in SectionNames : add_section(s)
    /\ UNCHANGED wfvars

DeleteSection ==
    /\ pc = "lib"
    /\ \E s \in SectionNames : delete_section(s)
    /\ UNCHANGED wfvars

Next == UpsertEnvironment \/ GetEnvId \/ AddSection \/ DeleteSection

Spec == LibInit(EmptyStore) /\ [][Next]_vars

\* C1: a call upsert_environment(n, ns) on an environment that exists returns
\* the id of the single environments row named n, as the first call did.
C1_UpsertReturnsRowId ==
    (last.call.op = "upsert_environment" /\ last.ret.ok) =>
        /\ Cardinality(EnvDuplicateKey(last.call.name)) = 1
        /\ \A r \in EnvDuplicateKey(last.call.name) : last.ret.val = r.id

\* C2: upsert_environment(n, ns2) on an existing environment n leaves every
\* environments row as it was: the namespace of n stays, no other row changes.
C2_NamespaceKept ==
    [][(/\ last'.call.op = "upsert_environment"
        /\ last'.ret.ok
        /\ EnvDuplicateKey(last'.call.name) # {})
       => environments' = environments]_vars

\* C2 witness: the last call passed a namespace other than the stored one.
C2_Witness ==
    /\ last.call.op = "upsert_environment"
    /\ last.ret.ok
    /\ \E r \in environments :
          r.name = last.call.name /\ r.namespace # last.call.namespace

\* C3: add_section(s) never errors on an existing name, leaves one row named
\* s, and returns the id of that row.
C3_AddSectionReturnsRowId ==
    (last.call.op = "add_section" /\ last.ret.ok) =>
        /\ Cardinality(SectionDuplicateKey(last.call.name)) = 1
        /\ \A r \in SectionDuplicateKey(last.call.name) : last.ret.val = r.id

\* C4: delete_section(s) returns the number of rows it removed: 0 when no
\* section named s existed, non-zero when one existed and was deleted.
C4_DeleteReturnsCount ==
    (last.call.op = "delete_section" /\ last.ret.ok) =>
        /\ SectionDuplicateKey(last.call.name) = {}
        /\ (last.ret.val # 0) <=> last.call.existed

\* C5: get_env_id(n) for a name that matches no row returns Ok(None); an error
\* is returned only for a storage failure.
C5_UnknownEnvIsNone ==
    (last.call.op = "get_env_id" /\ EnvDuplicateKey(last.call.name) = {}) =>
        \/ last.ret.ok /\ last.ret.val = <<>>
        \/ last.ret = StorageFailure

\* ------------------------------------------- config values

SetConfigValue ==
    /\ pc = "lib"
    /\ \E s \in SectionNames, k \in Keys, v \in Values, t \in ValueTypeNames :
          set_config_value(s, k, v, t)
    /\ UNCHANGED wfvars

AddEnvCfgValue ==
    /\ pc = "lib"
    /\ \E e \in EnvIds, c \in CfgIds : add_env_cfg_value(e, c)
    /\ UNCHANGED wfvars

AddDefault ==
    /\ pc = "lib"
    /\ \E s \in SectionNames, k \in Keys, v \in DefaultValues : add_default(s, k, v)
    /\ UNCHANGED wfvars

CfgNext == SetConfigValue \/ AddEnvCfgValue \/ AddDefault

SpecCfg == LibInit(SeededStore) /\ [][CfgNext]_vars

\* The row a successful set_config_value call inserted.
ConfigValueById(id) == CHOOSE cv \in config_values : cv.id = id

\* C6: set_config_value with a section name or a value type name that does
\* not exist returns an error and leaves config_values as it was.
C6_LookupFailureInsertsNothing ==
    [][(/\ last'.call.op = "set_config_value"
        /\ \/ SectionDuplicateKey(last'.call.section) = {}
           \/ ~\E t \in config_value_types : t.name = last'.call.value_type)
       => /\ ~last'.ret.ok
          /\ config_values' = config_values]_vars

\* C6 witness: the last set_config_value named a missing section or value
\* type and was refused.
C6_Witness ==
    /\ last.call.op = "set_config_value"
    /\ last.ret.err = "column cannot be null"
    /\ \/ SectionDuplicateKey(last.call.section) = {}
       \/ ~\E t \in config_value_types : t.name = last.call.value_type

\* C7: the row set_config_value inserts has default_id equal to the id of the
\* Default with the same (section, key) when one exists at insert time, and
\* NULL only when none exists.
C7_DefaultLinked ==
    [][(last'.call.op = "set_config_value" /\ last'.ret.ok) =>
         \A row \in config_values' \ config_values :
            row.default_id =
               ScalarSubquery({d.id : d \in DefaultsOf(row.section_id, row.cfg_key)})]_vars

\* The most recent successful set_config_value call.
LastWritten == cfg_log[Len(cfg_log)]

\* C8: once add_env_cfg_value has linked the value B that set_config_value
\* just inserted for a (section, key) having a Default A to environment E1,
\* (E1, section, key) resolves to B, and every other environment without a
\* linked value for (section, key) resolves to A.
C8_OverridePrecedence ==
    (/\ last.call.op = "add_env_cfg_value"
     /\ last.ret.ok
     /\ cfg_log # <<>>
     /\ last.call.cfg_id = LastWritten.id) =>
        LET sid == ConfigValueById(LastWritten.id).section_id
            key == LastWritten.key
        IN \A d \in DefaultsOf(sid, key) :
              /\ Resolve(last.call.env_id, sid, key) =
                    [from |-> "override", value |-> LastWritten.value]
              /\ \A e2 \in environments :
                    (e2.id # last.call.env_id /\ LinkedValues(e2.id, sid, key) = {})
                    => Resolve(e2.id, sid, key) =
                          [from |-> "default", value |-> d.cfg_value]

\* C8 witness: a Default A exists, B was just linked to one environment and
\* another environment has no linked value for the same (section, key).
C8_Witness ==
    /\ last.call.op = "add_env_cfg_value"
    /\ last.ret.ok
    /\ cfg_log # <<>>
    /\ last.call.cfg_id = LastWritten.id
    /\ LET sid == ConfigValueById(LastWritten.id).section_id
           key == LastWritten.key
       IN /\ \E d \in DefaultsOf(sid, key) : d.cfg_value # LastWritten.value
          /\ \E e2 \in environments :
                e2.id # last.call.env_id /\ LinkedValues(e2.id, sid, key) = {}

\* The positions in cfg_log of the calls whose row is linked to env_id and
\* belongs to (section_id, key).
LinkedWrites(env_id, section_id, key) ==
    {i \in DOMAIN cfg_log :
        \E cv \in LinkedValues(env_id, section_id, key) : cv.id = cfg_log[i].id}

\* C9, resolution: (environment, section, key) resolves to the value passed to
\* the latest set_config_value call whose row is linked to the environment.
C9_LatestWins ==
    \A e \in environments, sec \in config_sections, k \in Keys :
        LET writes == LinkedWrites(e.id, sec.id, k)
        IN writes # {} =>
             Resolve(e.id, sec.id, k) =
                [from |-> "override", value |-> cfg_log[Max(writes)].value]

\* C9, history: no step removes or changes a config_values or
\* environments_config_values row.
C9_RowsRetained ==
    /\ config_values \subseteq config_values'
    /\ environments_config_values \subseteq environments_config_values'

\* C9: last write wins over an append-only history.
C9_LastWriteWins == []C9_LatestWins /\ [][C9_RowsRetained]_vars

\* C9 witness: two values written for one (environment, section, key) are both
\* linked, and they differ.
C9_Witness ==
    \E e \in environments, sec \in config_sections, k \in Keys :
        \E i, j \in LinkedWrites(e.id, sec.id, k) :
            i < j /\ cfg_log[i].value # cfg_log[j].value

\* ---------------------------------------------------------------- init

\* The database cloned from the Dolt remote: a catalog without environments.
ClonedStore ==
    [environments |-> {},
     config_sections |-> {[id |-> 1, name |-> "database"]},
     config_defaults |-> {[id |-> 1, section_id |-> 1, cfg_key |-> "host",
                           cfg_value |-> "A", value_type_id |-> 1]},
     config_values |-> {},
     environments_config_values |-> {}]

InitOptsSet ==
    [force : BOOLEAN, no_db_clone : BOOLEAN, no_repo_clone : BOOLEAN,
     no_env : BOOLEAN, no_defaults : BOOLEAN, no_values : BOOLEAN]

SiteDir == "site"
ReposDir == "site/repos"
DbDir == "site/de_releases"

WfInit ==
    /\ DbInit(ClonedStore)
    /\ pc = "create_site_dir"
    /\ opts \in InitOptsSet
    /\ site_dir \in {{}, {SiteDir, ReposDir, DbDir}}
    /\ db_proc = "none"
    /\ committed = ClonedStore
    /\ repos_left = 0
    /\ asked = 0
    /\ outcome = [result |-> "running", step |-> "none"]

\* `?` on an Err: init returns the error from the step it is at.
ReturnErr(step) ==
    /\ pc' = "done"
    /\ outcome' = [result |-> "err", step |-> step]

\* The transaction is dropped without commit: its statements are undone and
\* the tables read as committed.
Rollback_mut ==
    /\ committed' = TxView
    /\ UNCHANGED dbvars
Rollback ==
    /\ environments' = committed.environments
    /\ config_sections' = committed.config_sections
    /\ config_defaults' = committed.config_defaults
    /\ config_values' = committed.config_values
    /\ environments_config_values' = committed.environments_config_values
    /\ UNCHANGED <<auto_increment, last, cfg_log, committed>>

\* remove_dir_all(dir): dir and everything below it.
RemoveDirAll(paths, dir) ==
    IF dir = SiteDir THEN {} ELSE paths \ {dir}

create_site_dir ==
    /\ pc = "create_site_dir"
    /\ \/ /\ SiteDir \in site_dir
          /\ opts.force
          /\ \/ /\ site_dir' = RemoveDirAll(site_dir, SiteDir)
                /\ pc' = "clone_db"
                /\ UNCHANGED outcome
             \/ /\ ReturnErr("create_site_dir")
                /\ UNCHANGED site_dir
       \/ /\ SiteDir \in site_dir
          /\ ~opts.force
          /\ ReturnErr("create_site_dir")
          /\ UNCHANGED site_dir
       \/ /\ SiteDir \notin site_dir
          /\ \/ /\ site_dir' = site_dir \cup {SiteDir, ReposDir}
                /\ pc' = "clone_db"
                /\ UNCHANGED outcome
             \/ /\ ReturnErr("create_site_dir")
                /\ UNCHANGED site_dir
    /\ UNCHANGED <<dbvars, opts, db_proc, committed, repos_left, asked>>

\* create_db_dir, then dolt::clone into it.
clone_db ==
    /\ pc = "clone_db"
    /\ \/ /\ ~opts.no_db_clone
          /\ DbDir \in site_dir
          /\ ~opts.force
          /\ ReturnErr("clone_db")
          /\ UNCHANGED site_dir
       \/ /\ ~opts.no_db_clone
          /\ DbDir \in site_dir => opts.force
          /\ \/ /\ site_dir' = site_dir \cup {SiteDir, DbDir}
                /\ pc' = "start_db"
                /\ UNCHANGED outcome
             \/ /\ site_dir' \in {site_dir, RemoveDirAll(site_dir, DbDir),
                                  site_dir \cup {SiteDir, DbDir}}
                /\ ReturnErr("clone_db")
       \/ /\ opts.no_db_clone
          /\ pc' = "start_db"
          /\ UNCHANGED <<site_dir, outcome>>
    /\ UNCHANGED <<dbvars, opts, db_proc, committed, repos_left, asked>>

\* dolt::start
start_db ==
    /\ pc = "start_db"
    /\ \/ /\ db_proc' = "running"
          /\ pc' = "connect"
          /\ UNCHANGED outcome
       \/ /\ ReturnErr("start_db")
          /\ UNCHANGED db_proc
    /\ UNCHANGED <<dbvars, opts, site_dir, committed, repos_left, asked>>

\* MySqlPoolOptions::connect, then pool.begin
connect ==
    /\ pc = "connect"
    /\ \/ /\ pc' = "get_repos"
          /\ UNCHANGED outcome
       \/ ReturnErr("connect")
    /\ UNCHANGED <<dbvars, opts, site_dir, db_proc, committed, repos_left, asked>>

get_repos ==
    /\ pc = "get_repos"
    /\ \/ /\ repos_left' \in 0..MaxRepos
          /\ pc' = "clone_repos"
          /\ UNCHANGED <<dbvars, outcome, committed>>
       \/ /\ ReturnErr("get_repos")
          /\ Rollback
          /\ UNCHANGED repos_left
    /\ UNCHANGED <<opts, site_dir, db_proc, asked>>

\* One turn of `for repo in repos`, and the loop's exit.
clone_repos ==
    /\ pc = "clone_repos"
    /\ \/ /\ repos_left > 0
          /\ repos_left' = repos_left - 1
          /\ UNCHANGED <<pc, outcome, dbvars, committed>>
       \/ /\ repos_left > 0
          /\ ~opts.no_repo_clone
          /\ ReturnErr("clone_repos")
          /\ Rollback
          /\ UNCHANGED repos_left
       \/ /\ repos_left = 0
          /\ pc' = "ask_for_info"
          /\ UNCHANGED <<repos_left, outcome, dbvars, committed>>
    /\ UNCHANGED <<opts, site_dir, db_proc, asked>>

\* One statement of ask_for_info on the transaction.
ask_for_info_call ==
    /\ pc = "ask_for_info"
    /\ ~opts.no_env
    /\ asked < MaxAskOps
    /\ asked' = asked + 1
    /\ \/ \E n \in EnvNames : upsert_environment(n, "ns1")
       \/ \E k \in Keys : set_config_value("database", k, "B", "string")
       \/ \E e \in EnvIds, c \in CfgIds : add_env_cfg_value(e, c)
    /\ UNCHANGED <<pc, opts, site_dir, db_proc, committed, repos_left, outcome>>

ask_for_info ==
    /\ pc = "ask_for_info"
    /\ \/ /\ pc' = "render_defaults"
          /\ UNCHANGED <<outcome, dbvars, committed>>
       \/ /\ ~opts.no_env
          /\ ReturnErr("ask_for_info")
          /\ Rollback
    /\ UNCHANGED <<opts, site_dir, db_proc, repos_left, asked>>

render_default_values ==
    /\ pc = "render_defaults"
    /\ \/ /\ pc' = "commit"
          /\ UNCHANGED <<outcome, dbvars, committed>>
       \/ /\ ~opts.no_defaults
          /\ ReturnErr("render_defaults")
          /\ Rollback
    /\ UNCHANGED <<opts, site_dir, db_proc, repos_left, asked>>

\* tx.commit()
commit ==
    /\ pc = "commit"
    /\ \/ /\ committed' = TxView
          /\ pc' = "render_values"
          /\ UNCHANGED <<outcome, dbvars>>
       \/ /\ ReturnErr("commit")
          /\ Rollback
    /\ UNCHANGED <<opts, site_dir, db_proc, repos_left, asked>>

render_values ==
    /\ pc = "render_values"
    /\ \/ /\ pc' = "shutdown"
          /\ UNCHANGED outcome
       \/ /\ ~opts.no_env
          /\ ~opts.no_values
          /\ ReturnErr("render_values")
    /\ UNCHANGED <<dbvars, opts, site_dir, db_proc, committed, repos_left, asked>>

\* pool.close(), then db_handle.kill()
shutdown ==
    /\ pc = "shutdown"
    /\ \/ /\ db_proc' = "killed"
          /\ pc' = "done"
          /\ outcome' = [result |-> "ok", step |-> "shutdown"]
       \/ /\ ReturnErr("shutdown")
          /\ UNCHANGED db_proc
    /\ UNCHANGED <<dbvars, opts, site_dir, committed, repos_left, asked>>

WfNext ==
    \/ create_site_dir
    \/ clone_db
    \/ start_db
    \/ connect
    \/ get_repos
    \/ clone_repos
    \/ ask_for_info_call
    \/ ask_for_info
    \/ render_default_values
    \/ commit
    \/ render_values
    \/ shutdown

SpecInit == WfInit /\ [][WfNext]_vars

InitFailedAt(steps) ==
    /\ pc = "done"
    /\ outcome.result = "err"
    /\ outcome.step \in steps

\* C10 as claimed: when init fails at any step after the transaction was
\* begun, rendering the environment values included, nothing the run did is
\* committed.
C10_FailureCommitsNothing ==
    InitFailedAt({"get_repos", "clone_repos", "ask_for_info", "render_defaults",
                  "commit", "render_values"})
    => committed = ClonedStore

\* C10 as amended: a failure at a step up to and including the commit leaves
\* nothing of the run committed; a failure while rendering the environment
\* values comes after the commit and leaves all of the run's statements
\* committed.
C10_FailureBeforeCommit ==
    /\ InitFailedAt({"get_repos", "clone_repos", "ask_for_info",
                     "render_defaults", "commit"})
       => committed = ClonedStore /\ TxView = ClonedStore
    /\ InitFailedAt({"render_values"}) => committed = TxView

\* C10 witness: a run that inserted an environment failed at the commit.
C10_Witness ==
    /\ InitFailedAt({"commit"})
    /\ last.call.op = "upsert_environment"
    /\ last.ret.ok
    /\ last.ret.val # NoInsertId

\* C11: create_site_dir on an existing directory with force deletes and
\* recreates it, so that a successful return leaves the site directory and its
\* repos subdirectory as a call on a missing directory does; on an existing
\* directory without force it returns an error and leaves the directory as it
\* was.
C11_ForceRecreatesSiteDir ==
    [][pc = "create_site_dir" =>
         /\ pc' = "clone_db" => site_dir' = {SiteDir, ReposDir}
         /\ (SiteDir \in site_dir /\ ~opts.force) =>
               /\ pc' = "done"
               /\ outcome'.result = "err"
               /\ site_dir' = site_dir]_vars

\* C12: on every return of init after dolt::start started the database
\* process (success, or an error from connecting, listing repos, cloning a
\* repo, ask_for_info, rendering defaults, commit or rendering values), the
\* process has been shut down.
C12_DbKilledOnEveryExit ==
    (/\ pc = "done"
     /\ \/ outcome.result = "ok"
        \/ outcome.step \in {"connect", "get_repos", "clone_repos", "ask_for_info",
                              "render_defaults", "commit", "render_values"})
    => db_proc = "killed"

====
